---- MODULE Spec2Model ----
(***************************************************************************)
(* Tiled (blocked) matrix multiplication and the multi-head attention      *)
(* layer built on it (src/tiled_attention.py).                             *)
(*                                                                         *)
(* A tensor is a record [shape, data]: shape is the 4-tuple of extents,    *)
(* data maps every 0-based index 4-tuple to the element.  Elements are     *)
(* integers, so sums are exact; the order in which partial products reach  *)
(* an element of C is recorded separately (order), because floating-point  *)
(* addition depends on it.                                                 *)
(***************************************************************************)
EXTENDS Integers, Sequences, FiniteSets, TLC

\* ---------------------------------------------------------------- bounds
MaxBatch == 2
MaxDim == 3
MaxTile == 4

VARIABLES
  A, B, tile_size,   \* tiled_matmul's arguments
  C,                 \* the output tensor (NoTensor before line 11)
  i, j, k,           \* loop variables (-1 while unbound)
  it,                \* next value of the three range iterators
  A_tile, B_tile,    \* the slices of the current step
  pc, err, result,   \* position in tiled_matmul, raised exception, return value
  nprod,             \* history: tile products accumulated so far
  writer,            \* history: element of C -> output tiles <<i, j>> that wrote it
  order,             \* history: element of C -> the k of each accumulation, in order
  next_k,            \* any-order schedule: output tile <<i, j>> -> its next k
  cfg,               \* TiledAttention's constructor arguments
  attn,              \* the TiledAttention object (self)
  frame,             \* forward's locals: the shape each name is bound to
  opc,               \* position in TiledAttention
  ncalls             \* history: calls of tiled_matmul made by forward

kvars == <<A, B, tile_size, C, i, j, k, it, A_tile, B_tile, pc, err, result,
           nprod, writer, order>>
avars == <<cfg, attn, frame, opc, ncalls>>
vars == <<kvars, next_k, avars>>

\* ------------------------------------------------------------- tensors
Min(a, b) == IF a < b THEN a ELSE b
Max(a, b) == IF a > b THEN a ELSE b

Idx(s) == (0 .. s[1] - 1) \X (0 .. s[2] - 1) \X (0 .. s[3] - 1) \X (0 .. s[4] - 1)

NoTensor == [shape |-> <<>>, data |-> [x \in {} |-> 0]]
IsTensor(T) == Len(T.shape) = 4

\* torch.zeros(shape)
Zeros(s) == [shape |-> s, data |-> [x \in Idx(s) |-> 0]]

\* row-major position of index x in a tensor of shape s
LinIdx(s, x) == ((x[1] * s[2] + x[2]) * s[3] + x[3]) * s[4] + x[4]

\* an input tensor: elements in -2 .. 2, varying with the position
Fill(s, seed) == [shape |-> s, data |-> [x \in Idx(s) |-> ((seed + LinIdx(s, x)) % 5) - 2]]

\* Python's a:b on an axis of extent len (a, b >= 0): both ends clipped to len
SliceLo(len, a) == Min(a, len)
SliceHi(len, a, b) == Max(SliceLo(len, a), Min(b, len))

\* T[:, :, r0:r1, c0:c1]
Slice4(T, r0, r1, c0, c1) ==
  LET rl == SliceLo(T.shape[3], r0)
      rh == SliceHi(T.shape[3], r0, r1)
      cl == SliceLo(T.shape[4], c0)
      ch == SliceHi(T.shape[4], c0, c1)
      s  == <<T.shape[1], T.shape[2], rh - rl, ch - cl>>
  IN [shape |-> s,
      data  |-> [x \in Idx(s) |-> T.data[<<x[1], x[2], x[3] + rl, x[4] + cl>>]]]

\* broadcasting of the leading (batch, head) extents
Broadcastable(a, b) == a = b \/ a = 1 \/ b = 1
BDim(a, b) == IF a = 1 THEN b ELSE a
BIdx(x, extent) == IF extent = 1 THEN 0 ELSE x

\* torch.matmul accepts X @ Y
MatmulOK(X, Y) ==
  /\ X.shape[4] = Y.shape[3]
  /\ Broadcastable(X.shape[1], Y.shape[1])
  /\ Broadcastable(X.shape[2], Y.shape[2])

RECURSIVE Dot(_, _, _, _)
\* sum over t' < t of X[b, h, r, t'] * Y[b, h, t', c], x = <<b, h, r, c>>
Dot(X, Y, x, t) ==
  IF t = 0 THEN 0
  ELSE Dot(X, Y, x, t - 1)
       + X.data[<<BIdx(x[1], X.shape[1]), BIdx(x[2], X.shape[2]), x[3], t - 1>>]
         * Y.data[<<BIdx(x[1], Y.shape[1]), BIdx(x[2], Y.shape[2]), t - 1, x[4]>>]

\* torch.matmul(X, Y), batched over the broadcast leading extents
Matmul(X, Y) ==
  LET s == <<BDim(X.shape[1], Y.shape[1]), BDim(X.shape[2], Y.shape[2]),
             X.shape[3], Y.shape[4]>>
  IN [shape |-> s, data |-> [x \in Idx(s) |-> Dot(X, Y, x, X.shape[4])]]

\* T += R is accepted: R broadcasts to T's shape without enlarging it
IAddOK(T, R) == \A d \in 1 .. 4 : R.shape[d] = T.shape[d] \/ R.shape[d] = 1

\* T += R
IAdd(T, R) ==
  [shape |-> T.shape,
   data  |-> [x \in Idx(T.shape) |->
                T.data[x] + R.data[<<BIdx(x[1], R.shape[1]), BIdx(x[2], R.shape[2]),
                                     BIdx(x[3], R.shape[3]), BIdx(x[4], R.shape[4])>>]]]

\* the rows and columns T[:, :, r0:r1, c0:c1] covers inside T
Region(T, r0, r1, c0, c1) ==
  [rl |-> SliceLo(T.shape[3], r0), rh |-> SliceHi(T.shape[3], r0, r1),
   cl |-> SliceLo(T.shape[4], c0), ch |-> SliceHi(T.shape[4], c0, c1)]
NoRegion == [rl |-> 0, rh |-> 0, cl |-> 0, ch |-> 0]

\* index x lies in region g
InRegion(x, g) == g.rl <= x[3] /\ x[3] < g.rh /\ g.cl <= x[4] /\ x[4] < g.ch

\* T[:, :, r0:r1, c0:c1] = V
SetSlice4(T, r0, r1, c0, c1, V) ==
  [shape |-> T.shape,
   data  |-> [x \in Idx(T.shape) |->
                IF InRegion(x, Region(T, r0, r1, c0, c1))
                  THEN V.data[<<x[1], x[2], x[3] - SliceLo(T.shape[3], r0),
                                x[4] - SliceLo(T.shape[4], c0)>>]
                  ELSE T.data[x]]]

\* mutant: a loop that visits full tiles only and drops the boundary tile
RangeHasFullTiles(v, stop, step) == IF step > 0 THEN v + step <= stop ELSE v > stop

\* mutant: a loop bound off by one, which also visits v = stop
RangeHasInclusive(v, stop, step) == IF step > 0 THEN v <= stop ELSE v > stop

\* range(0, stop, step) still yields v
RangeHas(v, stop, step) == IF step > 0 THEN v < stop ELSE v > stop

\* mutant: the product is accumulated into C[:, :, i:i+ts, k:k+ts]
TileStepWrongRegion(a, b, c, ts, ii, jj, kk) ==
  LET At == Slice4(a, ii, ii + ts, kk, kk + ts)
      Bt == Slice4(b, kk, kk + ts, jj, jj + ts)
      Ct == Slice4(c, ii, ii + ts, kk, kk + ts)
  IN IF ~MatmulOK(At, Bt) \/ ~IAddOK(Ct, Matmul(At, Bt))
       THEN [err |-> "RuntimeError", A_tile |-> At, B_tile |-> Bt, C |-> c, wrote |-> NoRegion]
     ELSE [err |-> "None", A_tile |-> At, B_tile |-> Bt,
           C |-> SetSlice4(c, ii, ii + ts, kk, kk + ts, IAdd(Ct, Matmul(At, Bt))),
           wrote |-> Region(c, ii, ii + ts, kk, kk + ts)]

\* lines 18-22 for one step (ii, jj, kk): the slices, the product and the
\* accumulation into c; err is the exception the step raises, if any
TileStep(a, b, c, ts, ii, jj, kk) ==
  LET At == Slice4(a, ii, ii + ts, kk, kk + ts)
      Bt == Slice4(b, kk, kk + ts, jj, jj + ts)
      Ct == Slice4(c, ii, ii + ts, jj, jj + ts)
  IN IF ~MatmulOK(At, Bt)
       THEN [err |-> "RuntimeError", A_tile |-> At, B_tile |-> Bt, C |-> c, wrote |-> NoRegion]
     ELSE IF ~IAddOK(Ct, Matmul(At, Bt))
       THEN [err |-> "RuntimeError", A_tile |-> At, B_tile |-> Bt, C |-> c, wrote |-> NoRegion]
     ELSE [err |-> "None", A_tile |-> At, B_tile |-> Bt,
           C |-> SetSlice4(c, ii, ii + ts, jj, jj + ts, IAdd(Ct, Matmul(At, Bt))),
           wrote |-> Region(c, ii, ii + ts, jj, jj + ts)]

\* ------------------------------------------------------ tiled_matmul
\* lines 7-11: unpack the shapes, allocate C
Enter ==
  /\ pc = "enter"
  /\ C' = Zeros(<<A.shape[1], A.shape[2], A.shape[3], B.shape[4]>>)
  /\ writer' = [x \in Idx(C'.shape) |-> {}]
  /\ order' = [x \in Idx(C'.shape) |-> <<>>]
  /\ pc' = "range_i"
  /\ UNCHANGED <<avars, next_k, A, B, tile_size, i, j, k, it, A_tile, B_tile, err, result, nprod>>

\* line 14, range(0, n, tile_size): a zero step raises ValueError
RangeI ==
  /\ pc = "range_i"
  /\ IF tile_size = 0
       THEN /\ pc' = "failed"
            /\ err' = "ValueError"
            /\ UNCHANGED it
       ELSE /\ pc' = "for_i"
            /\ it' = [it EXCEPT !.i = 0]
            /\ UNCHANGED err
  /\ UNCHANGED <<avars, next_k, A, B, tile_size, C, i, j, k, A_tile, B_tile, result, nprod, writer, order>>

\* line 14: next i, or the loop ends; line 15 builds range(0, p, tile_size)
ForI ==
  /\ pc = "for_i"
  /\ IF RangeHas(it.i, A.shape[3], tile_size)
       THEN /\ i' = it.i
            /\ it' = [it EXCEPT !.i = it.i + tile_size, !.j = 0]
            /\ pc' = "for_j"
       ELSE /\ pc' = "return"
            /\ UNCHANGED <<i, it>>
  /\ UNCHANGED <<avars, next_k, A, B, tile_size, C, j, k, A_tile, B_tile, err, result, nprod, writer, order>>

\* line 15: next j, or back to line 14; line 16 builds range(0, m, tile_size)
ForJ ==
  /\ pc = "for_j"
  /\ IF RangeHas(it.j, B.shape[4], tile_size)
       THEN /\ j' = it.j
            /\ it' = [it EXCEPT !.j = it.j + tile_size, !.k = 0]
            /\ pc' = "for_k"
       ELSE /\ pc' = "for_i"
            /\ UNCHANGED <<j, it>>
  /\ UNCHANGED <<avars, next_k, A, B, tile_size, C, i, k, A_tile, B_tile, err, result, nprod, writer, order>>

\* line 16: next k, or back to line 15
ForK ==
  /\ pc = "for_k"
  /\ IF RangeHas(it.k, A.shape[4], tile_size)
       THEN /\ k' = it.k
            /\ it' = [it EXCEPT !.k = it.k + tile_size]
            /\ pc' = "body"
       ELSE /\ pc' = "for_j"
            /\ UNCHANGED <<k, it>>
  /\ UNCHANGED <<avars, next_k, A, B, tile_size, C, i, j, A_tile, B_tile, err, result, nprod, writer, order>>

\* mutant: the step also clears the tile of A it has consumed
BodyWritesA ==
  /\ pc = "body"
  /\ LET st == TileStep(A, B, C, tile_size, i, j, k)
     IN /\ A_tile' = st.A_tile
        /\ B_tile' = st.B_tile
        /\ C' = st.C
        /\ A' = SetSlice4(A, i, i + tile_size, k, k + tile_size, Zeros(st.A_tile.shape))
        /\ err' = st.err
        /\ pc' = IF st.err = "None" THEN "for_k" ELSE "failed"
        /\ nprod' = IF st.err = "None" THEN nprod + 1 ELSE nprod
        /\ writer' = [x \in DOMAIN writer |->
                        IF InRegion(x, st.wrote) THEN writer[x] \cup {<<i, j>>} ELSE writer[x]]
        /\ order' = [x \in DOMAIN order |->
                       IF InRegion(x, st.wrote) THEN Append(order[x], k) ELSE order[x]]
  /\ UNCHANGED <<avars, next_k, B, tile_size, i, j, k, it, result>>

\* lines 18-22: slice, multiply, accumulate
Body ==
  /\ pc = "body"
  /\ LET st == TileStep(A, B, C, tile_size, i, j, k)
     IN /\ A_tile' = st.A_tile
        /\ B_tile' = st.B_tile
        /\ C' = st.C
        /\ err' = st.err
        /\ pc' = IF st.err = "None" THEN "for_k" ELSE "failed"
        /\ nprod' = IF st.err = "None" THEN nprod + 1 ELSE nprod
        /\ writer' = [x \in DOMAIN writer |->
                        IF InRegion(x, st.wrote) THEN writer[x] \cup {<<i, j>>} ELSE writer[x]]
        /\ order' = [x \in DOMAIN order |->
                       IF InRegion(x, st.wrote) THEN Append(order[x], k) ELSE order[x]]
  /\ UNCHANGED <<avars, next_k, A, B, tile_size, i, j, k, it, result>>

\* line 24
Return ==
  /\ pc = "return"
  /\ result' = C
  /\ pc' = "returned"
  /\ UNCHANGED <<avars, next_k, A, B, tile_size, C, i, j, k, it, A_tile, B_tile, err, nprod, writer, order>>

\* --------------------------------------------------------- a direct call
\* tile sizes: negative, zero, dividing, non-dividing, larger than every axis
TileSizes == {0 - MaxTile, -1} \cup (0 .. MaxTile)

\* the first element of the patterns that fill A; B_'s starts one later
Seeds == {0, 3}

\* leading (batch, head) extents of A: every batch extent with one head, and
\* two heads
Leading == {<<b, 1>> : b \in 0 .. MaxBatch} \cup {<<1, 2>>}

\* shapes of B_ that agree with A's shape sa in all but at most one extent
BShapes(sa, p) ==
  {<<sa[1], sa[2], sa[4], p>>}
    \cup {<<b, sa[2], sa[4], p>> : b \in 0 .. MaxBatch}
    \cup {<<sa[1], h, sa[4], p>> : h \in {1, 2}}
    \cup {<<sa[1], sa[2], m, p>> : m \in 0 .. MaxDim}

KernelIdle ==
  /\ C = NoTensor
  /\ i = -1 /\ j = -1 /\ k = -1
  /\ it = [i |-> 0, j |-> 0, k |-> 0]
  /\ A_tile = NoTensor /\ B_tile = NoTensor
  /\ err = "None"
  /\ result = NoTensor
  /\ nprod = 0
  /\ writer = [x \in {} |-> {}]
  /\ order = [x \in {} |-> <<>>]

NoObject == [hidden_size |-> 0, num_attention_heads |-> 0, tile_size |-> 0, scale |-> 0]
NoFrame == [hidden_states |-> <<>>, batch_size |-> 0, seq_length |-> 0, hidden_size |-> 0,
            q |-> <<>>, k |-> <<>>, v |-> <<>>, scores |-> <<>>,
            attention_weights |-> <<>>, attention_output |-> <<>>, output |-> <<>>]

AttnIdle ==
  /\ cfg = NoObject
  /\ attn = NoObject
  /\ frame = NoFrame
  /\ opc = "none"
  /\ ncalls = 0

Init ==
  /\ \E l \in Leading, n \in 0 .. MaxDim, m \in 0 .. MaxDim,
        p \in 0 .. MaxDim, seed \in Seeds :
       \E sb \in BShapes(<<l[1], l[2], n, m>>, p) :
         /\ A = Fill(<<l[1], l[2], n, m>>, seed)
         /\ B = Fill(sb, seed + 1)
  /\ tile_size \in TileSizes
  /\ pc = "enter"
  /\ KernelIdle
  /\ next_k = <<>>
  /\ AttnIdle

Next == Enter \/ RangeI \/ ForI \/ ForJ \/ ForK \/ Body \/ Return

Spec == Init /\ [][Next]_vars

\* ------------------------------------- the output tiles in any order
MaxOutTiles == 4

RECURSIVE RangeVals(_, _, _)
\* the values range(0, stop, step) yields from v on (step # 0)
RangeVals(v, stop, step) ==
  IF RangeHas(v, stop, step) THEN {v} \cup RangeVals(v + step, stop, step) ELSE {}

\* the <<i, j>> the loops of lines 14-15 select
OutTiles(a, b, ts) ==
  RangeVals(0, a.shape[3], ts) \X RangeVals(0, b.shape[4], ts)

RECURSIVE LoopK(_, _, _, _, _, _, _)
\* lines 16-22 for one output tile, from kk on
LoopK(a, b, c, ts, ii, jj, kk) ==
  IF RangeHas(kk, a.shape[4], ts)
    THEN LoopK(a, b, TileStep(a, b, c, ts, ii, jj, kk).C, ts, ii, jj, kk + ts)
    ELSE c

RECURSIVE LoopJ(_, _, _, _, _, _)
\* lines 15-22 for one row of output tiles, from jj on
LoopJ(a, b, c, ts, ii, jj) ==
  IF RangeHas(jj, b.shape[4], ts)
    THEN LoopJ(a, b, LoopK(a, b, c, ts, ii, jj, 0), ts, ii, jj + ts)
    ELSE c

RECURSIVE LoopI(_, _, _, _, _)
\* lines 14-22, from ii on
LoopI(a, b, c, ts, ii) ==
  IF RangeHas(ii, a.shape[3], ts)
    THEN LoopI(a, b, LoopJ(a, b, c, ts, ii, 0), ts, ii + ts)
    ELSE c

\* the sequential loop nest of lines 11-24 as a function (compatible shapes, ts >= 1)
TiledMatmul(a, b, ts) ==
  LoopI(a, b, Zeros(<<a.shape[1], a.shape[2], a.shape[3], b.shape[4]>>), ts, 0)

\* line 14-15 with the output tiles handed out in any order: every tile
\* starts its k loop at 0
TilesStart ==
  /\ pc = "range_i"
  /\ next_k' = [t \in OutTiles(A, B, tile_size) |-> 0]
  /\ pc' = "tiles"
  /\ UNCHANGED <<avars, A, B, tile_size, C, i, j, k, it, A_tile, B_tile, err, result,
                 nprod, writer, order>>

\* lines 16-22 for any output tile that has a k left: its next step
TileAny ==
  /\ pc = "tiles"
  /\ \E t \in DOMAIN next_k :
       /\ RangeHas(next_k[t], A.shape[4], tile_size)
       /\ LET st == TileStep(A, B, C, tile_size, t[1], t[2], next_k[t])
          IN /\ i' = t[1] /\ j' = t[2] /\ k' = next_k[t]
             /\ A_tile' = st.A_tile
             /\ B_tile' = st.B_tile
             /\ C' = st.C
             /\ err' = st.err
             /\ pc' = IF st.err = "None" THEN "tiles" ELSE "failed"
             /\ nprod' = IF st.err = "None" THEN nprod + 1 ELSE nprod
             /\ writer' = [x \in DOMAIN writer |->
                             IF InRegion(x, st.wrote) THEN writer[x] \cup {t} ELSE writer[x]]
             /\ order' = [x \in DOMAIN order |->
                            IF InRegion(x, st.wrote) THEN Append(order[x], next_k[t]) ELSE order[x]]
             /\ next_k' = [next_k EXCEPT ![t] = next_k[t] + tile_size]
  /\ UNCHANGED <<avars, A, B, tile_size, it, result>>

\* line 24, once every output tile has run out of k
TilesReturn ==
  /\ pc = "tiles"
  /\ \A t \in DOMAIN next_k : ~RangeHas(next_k[t], A.shape[4], tile_size)
  /\ result' = C
  /\ pc' = "returned"
  /\ UNCHANGED <<avars, next_k, A, B, tile_size, C, i, j, k, it, A_tile, B_tile, err,
                 nprod, writer, order>>

InitTiles ==
  /\ \E h \in {1, 2}, n \in 1 .. MaxDim, m \in 1 .. MaxDim, p \in 1 .. MaxDim :
       /\ A = Fill(<<1, h, n, m>>, 0)
       /\ B = Fill(<<1, h, m, p>>, 1)
  /\ tile_size \in 1 .. MaxTile
  /\ Cardinality(OutTiles(A, B, tile_size)) <= MaxOutTiles
  /\ pc = "enter"
  /\ KernelIdle
  /\ next_k = <<>>
  /\ AttnIdle

NextTiles == Enter \/ TilesStart \/ TileAny \/ TilesReturn

SpecTiles == InitTiles /\ [][NextTiles]_vars

\* ------------------------------------------------------ TiledAttention
MaxSeq == 2
MaxHidden == 4
MaxCfgHeads == 3

\* number of elements of a shape
Numel(s) == IF Len(s) = 3 THEN s[1] * s[2] * s[3] ELSE s[1] * s[2] * s[3] * s[4]

\* nn.Linear(fin, fout) accepts an input of shape s
LinearOK(s, fin) == s[3] = fin
\* the shape nn.Linear(fin, fout) gives an input of shape s
Linear(s, fout) == <<s[1], s[2], fout>>

\* Tensor.view(t) accepts a contiguous tensor of shape s
ViewOK(s, t) == Numel(s) = Numel(t)

\* mutant: the transpose is left out
TransposeNone(s, a, b) == s

\* the shape after transpose(a, b), axes counted from 1
Transpose(s, a, b) == [s EXCEPT ![a] = s[b], ![b] = s[a]]

\* the tensor a projected or normalised shape stands for, as handed to
\* tiled_matmul; its elements depend on the layer's parameters and are
\* represented by a fixed pattern
TensorOf(s) == Fill(s, 0)

\* lines 28-40: the fields, and scale = 1.0 / (hidden_size // heads) ** 0.5
Construct ==
  /\ opc = "construct"
  /\ IF cfg.hidden_size \div cfg.num_attention_heads = 0
       THEN /\ opc' = "failed"
            /\ err' = "ZeroDivisionError"
            /\ UNCHANGED attn
       ELSE /\ attn' = [hidden_size |-> cfg.hidden_size,
                        num_attention_heads |-> cfg.num_attention_heads,
                        tile_size |-> cfg.tile_size,
                        scale |-> cfg.hidden_size \div cfg.num_attention_heads]
            /\ opc' = "forward"
            /\ UNCHANGED err
  /\ UNCHANGED <<cfg, frame, ncalls, next_k, A, B, tile_size, C, i, j, k, it, A_tile,
                 B_tile, pc, result, nprod, writer, order>>

\* lines 43-48: unpack the input's shape, project to q, k, v
Project ==
  /\ opc = "forward"
  /\ IF ~LinearOK(frame.hidden_states, attn.hidden_size)
       THEN /\ opc' = "failed"
            /\ err' = "RuntimeError"
            /\ frame' = [frame EXCEPT !.batch_size = frame.hidden_states[1],
                                      !.seq_length = frame.hidden_states[2],
                                      !.hidden_size = frame.hidden_states[3]]
       ELSE /\ frame' = [frame EXCEPT !.batch_size = frame.hidden_states[1],
                                      !.seq_length = frame.hidden_states[2],
                                      !.hidden_size = frame.hidden_states[3],
                                      !.q = Linear(frame.hidden_states, attn.hidden_size),
                                      !.k = Linear(frame.hidden_states, attn.hidden_size),
                                      !.v = Linear(frame.hidden_states, attn.hidden_size)]
            /\ opc' = "split"
            /\ UNCHANGED err
  /\ UNCHANGED <<cfg, attn, ncalls, next_k, A, B, tile_size, C, i, j, k, it, A_tile,
                 B_tile, pc, result, nprod, writer, order>>

\* lines 51-53: view as (batch, seq, heads, hidden // heads), transpose(1, 2)
SplitHeads ==
  /\ opc = "split"
  /\ LET t == <<frame.batch_size, frame.seq_length, attn.num_attention_heads,
                frame.hidden_size \div attn.num_attention_heads>>
     IN IF ~ViewOK(frame.q, t)
          THEN /\ opc' = "failed"
               /\ err' = "RuntimeError"
               /\ UNCHANGED frame
          ELSE /\ frame' = [frame EXCEPT !.q = Transpose(t, 2, 3),
                                         !.k = Transpose(t, 2, 3),
                                         !.v = Transpose(t, 2, 3)]
               /\ opc' = "call_scores"
               /\ UNCHANGED err
  /\ UNCHANGED <<cfg, attn, ncalls, next_k, A, B, tile_size, C, i, j, k, it, A_tile,
                 B_tile, pc, result, nprod, writer, order>>

\* a call of tiled_matmul(a, b, ts) from forward
Call(a, b, ts) ==
  /\ A' = a
  /\ B' = b
  /\ tile_size' = ts
  /\ pc' = "enter"
  /\ C' = NoTensor
  /\ i' = -1 /\ j' = -1 /\ k' = -1
  /\ it' = [i |-> 0, j |-> 0, k |-> 0]
  /\ A_tile' = NoTensor /\ B_tile' = NoTensor
  /\ result' = NoTensor
  /\ nprod' = 0
  /\ writer' = [x \in {} |-> {}]
  /\ order' = [x \in {} |-> <<>>]
  /\ ncalls' = ncalls + 1
  /\ UNCHANGED <<cfg, attn, frame, err, next_k>>

\* line 56: tiled_matmul(q, k.transpose(-1, -2), self.tile_size)
CallScores ==
  /\ opc = "call_scores"
  /\ opc' = "in_scores"
  /\ Call(TensorOf(frame.q), TensorOf(Transpose(frame.k, 3, 4)), attn.tile_size)

\* lines 56-57: scores = result * scale, attention_weights = softmax(scores)
RetScores ==
  /\ opc = "in_scores" /\ pc = "returned"
  /\ frame' = [frame EXCEPT !.scores = result.shape,
                            !.attention_weights = result.shape]
  /\ opc' = "call_context"
  /\ UNCHANGED <<cfg, attn, ncalls, kvars, next_k>>

\* line 58: tiled_matmul(attention_weights, v, self.tile_size)
CallContext ==
  /\ opc = "call_context"
  /\ opc' = "in_context"
  /\ Call(TensorOf(frame.attention_weights), TensorOf(frame.v), attn.tile_size)

\* line 58: attention_output = the product
RetContext ==
  /\ opc = "in_context" /\ pc = "returned"
  /\ frame' = [frame EXCEPT !.attention_output = result.shape]
  /\ opc' = "merge"
  /\ UNCHANGED <<cfg, attn, ncalls, kvars, next_k>>

\* line 61: transpose(1, 2).contiguous().view(batch, seq, hidden)
Merge ==
  /\ opc = "merge"
  /\ LET t == <<frame.batch_size, frame.seq_length, frame.hidden_size>>
     IN IF ~ViewOK(Transpose(frame.attention_output, 2, 3), t)
          THEN /\ opc' = "failed"
               /\ err' = "RuntimeError"
               /\ UNCHANGED frame
          ELSE /\ frame' = [frame EXCEPT !.attention_output = t]
               /\ opc' = "out"
               /\ UNCHANGED err
  /\ UNCHANGED <<cfg, attn, ncalls, next_k, A, B, tile_size, C, i, j, k, it, A_tile,
                 B_tile, pc, result, nprod, writer, order>>

\* lines 64-66: output = self.out(attention_output); return output
Out ==
  /\ opc = "out"
  /\ IF ~LinearOK(frame.attention_output, attn.hidden_size)
       THEN /\ opc' = "failed"
            /\ err' = "RuntimeError"
            /\ UNCHANGED frame
       ELSE /\ frame' = [frame EXCEPT !.output = Linear(frame.attention_output,
                                                         attn.hidden_size)]
            /\ opc' = "done"
            /\ UNCHANGED err
  /\ UNCHANGED <<cfg, attn, ncalls, next_k, A, B, tile_size, C, i, j, k, it, A_tile,
                 B_tile, pc, result, nprod, writer, order>>

\* an exception of tiled_matmul leaves forward at line 56 or 58
Propagate ==
  /\ opc \in {"in_scores", "in_context"} /\ pc = "failed"
  /\ opc' = "failed"
  /\ UNCHANGED <<cfg, attn, frame, ncalls, kvars, next_k>>

InitAttn ==
  /\ \E hs \in 1 .. MaxHidden, nh \in 1 .. MaxCfgHeads, ts \in TileSizes :
       cfg = [hidden_size |-> hs, num_attention_heads |-> nh, tile_size |-> ts, scale |-> 0]
  /\ \E b \in 0 .. MaxBatch, sl \in 0 .. MaxSeq, hin \in 1 .. MaxHidden :
       frame = [NoFrame EXCEPT !.hidden_states = <<b, sl, hin>>]
  /\ attn = NoObject
  /\ opc = "construct"
  /\ ncalls = 0
  /\ A = NoTensor /\ B = NoTensor /\ tile_size = 0
  /\ pc = "idle"
  /\ KernelIdle
  /\ next_k = <<>>

NextAttn ==
  \/ Construct \/ Project \/ SplitHeads \/ CallScores \/ RetScores \/ CallContext
  \/ RetContext \/ Merge \/ Out \/ Propagate
  \/ Enter \/ RangeI \/ ForI \/ ForJ \/ ForK \/ Body \/ Return

SpecAttn == InitAttn /\ [][NextAttn]_vars

\* ------------------------------------------------- vocabulary of the claims
\* the exception classes the code raises, by the spec's error taxonomy:
\* torch's shape checks raise RuntimeError; range() with a zero step raises
\* ValueError and a zero head_dim makes the scale raise ZeroDivisionError
ShapeMismatch == {"RuntimeError"}
InvalidConfiguration == {"ValueError", "ZeroDivisionError"}

N_ == A.shape[3]
M_ == A.shape[4]
P_ == B.shape[4]

SameLeading == B.shape[1] = A.shape[1] /\ B.shape[2] = A.shape[2]
Compatible == SameLeading /\ B.shape[3] = A.shape[4]
NonEmpty(T) == \A d \in 1 .. 4 : T.shape[d] >= 1

RECURSIVE DenseSum(_, _, _, _)
\* sum over t < m of a[b, h, r, t] * b_[b, h, t, c], x = <<b, h, r, c>>
DenseSum(a, b, x, m) ==
  IF m = 0 THEN 0
  ELSE DenseSum(a, b, x, m - 1)
       + a.data[<<x[1], x[2], x[3], m - 1>>] * b.data[<<x[1], x[2], m - 1, x[4]>>]

\* ------------------------------------------------------------------ C1
\* C1: for compatible shapes and tile_size >= 1 the call does not fail and
\* returns C of shape (B, H, N, P) with C[b,h,r,c] = sum over k of
\* A[b,h,r,k] * B_[b,h,k,c], whatever the tile size.
C1_DenseProduct ==
  (Compatible /\ tile_size >= 1) =>
     /\ pc # "failed"
     /\ pc = "returned" =>
          /\ result.shape = <<A.shape[1], A.shape[2], N_, P_>>
          /\ \A x \in Idx(result.shape) : result.data[x] = DenseSum(A, B, x, M_)

\* a returned product whose tile size divides no axis, with boundary tiles
C1_Witness ==
  /\ pc = "returned" /\ Compatible
  /\ tile_size = 2 /\ N_ = 3 /\ M_ = 3 /\ P_ = 3
  /\ A.shape[1] = 2
  /\ \E x \in Idx(result.shape) : result.data[x] # 0

\* ------------------------------------------------------------------ C2
\* C2: for tile_size >= 1 and non-empty tensors with equal leading extents,
\* whenever A's trailing extent differs from B_'s second-to-last extent the
\* call fails with a ShapeMismatch error and returns no result.
C2_ReductionMismatchFails ==
  (tile_size >= 1 /\ NonEmpty(A) /\ NonEmpty(B) /\ SameLeading /\ B.shape[3] # M_) =>
     /\ pc # "returned"
     /\ result = NoTensor
     /\ pc = "failed" => err \in ShapeMismatch

\* ------------------------------------------------------------------ C3
\* C3: for tile_size >= 1 and non-empty tensors with equal reduction extents,
\* whenever the leading (batch, head) extents of A and B_ differ the call
\* fails with a ShapeMismatch error and returns no result.
C3_LeadingMismatchFails ==
  (tile_size >= 1 /\ NonEmpty(A) /\ NonEmpty(B) /\ ~SameLeading /\ B.shape[3] = M_) =>
     /\ pc # "returned"
     /\ result = NoTensor
     /\ pc = "failed" => err \in ShapeMismatch

\* ------------------------------------------------------------------ C4
\* C4: for every tile_size <= 0 the call (here on non-empty tensors of
\* compatible shapes) fails with an InvalidConfiguration error and returns no
\* result tensor.
C4_NonPositiveTileFails ==
  (tile_size <= 0 /\ NonEmpty(A) /\ NonEmpty(B) /\ Compatible) =>
     /\ pc # "returned"
     /\ result = NoTensor
     /\ pc = "failed" => err \in InvalidConfiguration

\* ------------------------------------------------------------------ C6
\* C6: a failing call of tiled_matmul (here on non-empty tensors) fails
\* before any tile product has been computed or accumulated into C.
C6_FailsBeforeAnyProduct ==
  (pc = "failed" /\ NonEmpty(A) /\ NonEmpty(B)) =>
     (nprod = 0 /\ (IsTensor(C) => C = Zeros(C.shape)))

\* ------------------------------------------------------------------ C7
\* C7: no step of a call, successful or failing, changes an element of A or
\* of B_, and the output C is allocated by the call, all zero.
C7_InputsUnchanged ==
  [][/\ A' = A
     /\ B' = B
     /\ pc = "enter" => (C = NoTensor /\ C' = Zeros(C'.shape))]_vars

\* a call that failed after it had accumulated tile products into C
C7_Witness ==
  /\ pc = "failed" /\ nprod >= 2
  /\ \E x \in Idx(C.shape) : C.data[x] # 0

\* ------------------------------------------------------------------ C10
\* C10: for compatible shapes and tile_size >= 1, every step (i, j, k) takes
\* non-empty slices clipped to the array bounds: A_tile is
\* min(ts, N-i) x min(ts, M-k), B_tile is min(ts, M-k) x min(ts, P-j), the
\* region of C is min(ts, N-i) x min(ts, P-j); the shared extent agrees and
\* the product has the shape of the region it is added to.
C10_ClippedTiles ==
  [][(pc = "body" /\ Compatible /\ tile_size >= 1) =>
       LET reg == Slice4(C, i, i + tile_size, j, j + tile_size)
       IN /\ i < N_ /\ j < P_ /\ k < M_
          /\ A_tile'.shape = <<A.shape[1], A.shape[2],
                               Min(tile_size, N_ - i), Min(tile_size, M_ - k)>>
          /\ B_tile'.shape = <<B.shape[1], B.shape[2],
                               Min(tile_size, M_ - k), Min(tile_size, P_ - j)>>
          /\ reg.shape = <<A.shape[1], A.shape[2],
                           Min(tile_size, N_ - i), Min(tile_size, P_ - j)>>
          /\ A_tile'.shape[4] = B_tile'.shape[3]
          /\ Matmul(A_tile', B_tile').shape = reg.shape
          /\ pc' = "for_k"]_vars

\* a boundary step of a tile size that divides no axis: every slice clipped to 1
C10_Witness ==
  /\ Compatible /\ tile_size = 2 /\ N_ = 3 /\ M_ = 3 /\ P_ = 3
  /\ pc = "for_k" /\ i = 2 /\ j = 2 /\ k = 2
  /\ IsTensor(A_tile) /\ A_tile.shape[3] = 1 /\ A_tile.shape[4] = 1
  /\ B_tile.shape[3] = 1 /\ B_tile.shape[4] = 1

\* ------------------------------------------------------------------ C9
\* C9: with the output tiles processed in any order or interleaving and each
\* tile's k loop kept sequential, no element of C is written by two distinct
\* output tiles, every element receives its partial products in increasing
\* order of k, and the returned C is the C of the sequential loop nest.
C9_AnyOrderSameResult ==
  /\ pc # "failed"
  /\ \A x \in DOMAIN writer : Cardinality(writer[x]) <= 1
  /\ \A x \in DOMAIN order :
       \A n \in 1 .. Len(order[x]) : order[x][n] = (n - 1) * tile_size
  /\ pc = "returned" =>
       /\ result = TiledMatmul(A, B, tile_size)
       /\ \A x \in DOMAIN order :
            Len(order[x]) = Cardinality(RangeVals(0, M_, tile_size))

\* an interleaving the sequential loop never takes: the last output tile is
\* ahead of the first one, which has not finished its k loop
C9_Witness ==
  /\ pc = "tiles"
  /\ Cardinality(DOMAIN next_k) = 4
  /\ next_k[<<0, 0>>] = tile_size /\ tile_size < M_
  /\ \E t \in DOMAIN next_k : t[1] > 0 /\ t[2] > 0 /\ next_k[t] >= M_

\* ------------------------------------------------------------------ C5
\* C5: whenever hidden_size % num_heads != 0, construction followed by
\* forward on an input of shape (batch, seq_len, hidden_size) (here with
\* tile_size >= 1) fails with an InvalidConfiguration error and produces no
\* output tensor.
C5_IndivisibleHeadsFail ==
  (/\ cfg.hidden_size % cfg.num_attention_heads # 0
   /\ cfg.tile_size >= 1
   /\ frame.hidden_states[3] = cfg.hidden_size) =>
     /\ opc # "done"
     /\ frame.output = <<>>
     /\ opc = "failed" => err \in InvalidConfiguration

\* ------------------------------------------------------------------ C8
\* C8: for an input of shape (batch, seq_len, hidden_size), num_heads
\* dividing hidden_size and tile_size >= 1, forward does not fail; scores
\* and weights have shape (batch, num_heads, seq_len, seq_len), context has
\* shape (batch, num_heads, seq_len, head_dim), and the output has shape
\* (batch, seq_len, hidden_size).
C8_ForwardShapes ==
  (/\ cfg.hidden_size % cfg.num_attention_heads = 0
   /\ cfg.tile_size >= 1
   /\ frame.hidden_states[3] = cfg.hidden_size) =>
     LET b  == frame.hidden_states[1]
         sl == frame.hidden_states[2]
         nh == cfg.num_attention_heads
         hd == cfg.hidden_size \div cfg.num_attention_heads
     IN /\ opc # "failed"
        /\ opc \in {"call_context", "in_context", "merge", "out", "done"} =>
             /\ frame.scores = <<b, nh, sl, sl>>
             /\ frame.attention_weights = <<b, nh, sl, sl>>
        /\ opc = "merge" => frame.attention_output = <<b, nh, sl, hd>>
        /\ opc \in {"out", "done"} => frame.attention_output = <<b, sl, cfg.hidden_size>>
        /\ opc = "done" => frame.output = <<b, sl, cfg.hidden_size>>

\* a finished forward pass with two heads of head_dim 2, both kernel calls made
C8_Witness ==
  /\ opc = "done" /\ ncalls = 2
  /\ cfg.hidden_size = 4 /\ cfg.num_attention_heads = 2 /\ cfg.tile_size = 1
  /\ frame.hidden_states = <<2, 2, 4>>
  /\ frame.output = <<2, 2, 4>>
====
